---- MODULE Spec2Model ----
(***************************************************************************)
(* Model of src/firejail/landlock.c: the kernel version probe, the         *)
(* process-wide Landlock ruleset descriptor rset_fd, the per-class rule    *)
(* helpers, the baseline policy, the queue of profile directives and the   *)
(* commit (ll_restrict).  The kernel side (file descriptor table, ruleset   *)
(* objects, the three Landlock system calls) is modelled as far as the     *)
(* code observes it: through the returned descriptors and results.         *)
(***************************************************************************)
EXTENDS Integers, Sequences, FiniteSets, TLC

VARIABLES
    uname_rv,   \* what uname() returns: 0, or -1 when the call fails
    release,    \* utsname.release as reported by uname()
    user,       \* [uid, homedir]: getuid() and cfg.homedir
    fs,         \* the paths that exist on the filesystem
    lsm,        \* TRUE when the running kernel has Landlock enabled
    rset_fd,    \* static int rset_fd
    fds,        \* the process's descriptor table: fd -> open object
    nnp,        \* the process's no_new_privs flag
    domain,     \* the rulesets the kernel enforces on the process, oldest first
    lprofile,   \* cfg.lprofile: directive strings, head of the list first
    alive,      \* FALSE once the process has called exit()
    lastOp      \* the last entry point called: name, argument, result, syscalls

vars == <<uname_rv, release, user, fs, lsm, rset_fd, fds, nnp, domain, lprofile, alive, lastOp>>

(***************************************************************************)
(* Bounds of the model.                                                    *)
(***************************************************************************)
\* longest directive queue built by ll_add_profile
MaxQueue == 2

(***************************************************************************)
(* Unsigned 32-bit arithmetic, in 16-bit halves.                           *)
(***************************************************************************)
Half == 65536

\* (major << 8) + minor in unsigned arithmetic, as [hi, lo] halves
EncodeVersion(major, minor) ==
    LET shHi == ((major \div Half) % 256) * 256 + ((major % Half) \div 256)
        shLo == (major % 256) * 256
        lo   == shLo + (minor % Half)
        hi   == shHi + (minor \div Half) + (lo \div Half)
    IN  [hi |-> hi % Half, lo |-> lo % Half]

\* a < b for two unsigned values given in halves
U32Less(a, b) == a.hi < b.hi \/ (a.hi = b.hi /\ a.lo < b.lo)

(***************************************************************************)
(* sscanf(u.release, "%u.%u", &major, &minor)                              *)
(***************************************************************************)
Digits == {"0", "1", "2", "3", "4", "5", "6", "7", "8", "9"}

DigitVal(c) ==
    CASE c = "0" -> 0 [] c = "1" -> 1 [] c = "2" -> 2 [] c = "3" -> 3
      [] c = "4" -> 4 [] c = "5" -> 5 [] c = "6" -> 6 [] c = "7" -> 7
      [] c = "8" -> 8 [] c = "9" -> 9

CharAt(s, i) == SubSeq(s, i, i)

\* index of the first character at or after i that is not white space
RECURSIVE SkipSpace(_, _)
SkipSpace(s, i) ==
    IF i <= Len(s) /\ CharAt(s, i) = " " THEN SkipSpace(s, i + 1) ELSE i

\* the digits from position i on: [val, next], next = i when there is none
RECURSIVE ScanDigits(_, _, _)
ScanDigits(s, i, acc) ==
    IF i <= Len(s) /\ CharAt(s, i) \in Digits
    THEN ScanDigits(s, i + 1, acc * 10 + DigitVal(CharAt(s, i)))
    ELSE [val |-> acc, next |-> i]

\* one %u conversion at position i: [ok, val, next]
ScanUnsigned(s, i) ==
    LET Result(j, d) == [ok |-> d.next > j, val |-> d.val, next |-> d.next]
        Convert(j) == Result(j, ScanDigits(s, j, 0))
    IN  Convert(SkipSpace(s, i))

\* the number of conversions made and the two values
Sscanf(s) ==
    LET Second(a, b) ==
            IF b.ok THEN [n |-> 2, major |-> a.val, minor |-> b.val]
            ELSE [n |-> 1, major |-> a.val, minor |-> 0]
        First(a) ==
            IF ~a.ok THEN [n |-> 0, major |-> 0, minor |-> 0]
            ELSE IF ~(a.next <= Len(s) /\ CharAt(s, a.next) = ".")
                 THEN [n |-> 1, major |-> a.val, minor |-> 0]
                 ELSE Second(a, ScanUnsigned(s, a.next + 1))
    IN  First(ScanUnsigned(s, 1))

(***************************************************************************)
(* old_kernel: 1 if the kernel is older than 6.1, 0 otherwise; the process *)
(* exits when uname() fails and when the release cannot be parsed.  u is   *)
(* what uname() has answered: [rv, release].                               *)
(***************************************************************************)
MinVersion == EncodeVersion(6, 1)

\* int rv = uname(&u)
Uname(m) == [rv |-> m.uname_rv, release |-> m.release]

\* old_kernel with the threshold one minor version too low
OldKernelBelow60(u) ==
    LET Decide(p) ==
            IF p.n # 2 THEN [exited |-> TRUE, why |-> "sscanf", rv |-> 1]
            ELSE [exited |-> FALSE, why |-> "",
                  rv |-> IF U32Less(EncodeVersion(p.major, p.minor),
                                    EncodeVersion(6, 0))
                         THEN 1 ELSE 0]
    IN  IF u.rv # 0 THEN [exited |-> TRUE, why |-> "uname", rv |-> 1]
        ELSE Decide(Sscanf(u.release))

old_kernel(u) ==
    LET Decide(p) ==
            IF p.n # 2 THEN [exited |-> TRUE, why |-> "sscanf", rv |-> 1]
            ELSE [exited |-> FALSE, why |-> "",
                  rv |-> IF U32Less(EncodeVersion(p.major, p.minor), MinVersion)
                         THEN 1 ELSE 0]
    IN  IF u.rv # 0 THEN [exited |-> TRUE, why |-> "uname", rv |-> 1]
        ELSE Decide(Sscanf(u.release))

(***************************************************************************)
(* Access rights (linux/landlock.h) and the masks the code builds.         *)
(***************************************************************************)
\* attr.handled_access_fs of ll_create_full_ruleset
HandledAccess ==
    {"read_file", "read_dir", "write_file", "remove_file", "remove_dir",
     "make_char", "make_dir", "make_reg", "make_sock", "make_fifo",
     "make_block", "make_sym", "execute"}

\* target.allowed_access of ll_read
ReadAccess == {"read_file", "read_dir"}

\* target.allowed_access of ll_write
WriteAccess ==
    {"write_file", "remove_file", "remove_dir", "make_char", "make_dir",
     "make_reg", "make_sym"}

\* target.allowed_access of ll_special
SpecialAccess == {"make_sock", "make_fifo", "make_block"}

\* target.allowed_access of ll_exec
ExecAccess == {"execute"}

\* target.allowed_access of the home directory rule of ll_basic_system
HomeAccess ==
    {"read_file", "read_dir", "write_file", "remove_file", "remove_dir",
     "make_char", "make_dir", "make_reg", "make_sym"}

(***************************************************************************)
(* The run of one entry point: the process state it works on, the system   *)
(* calls it has made so far (log) and what the kernel will answer (o).     *)
(***************************************************************************)
NoFd == -1

Ev(ev, fn, fd, pfd, path, access, ret) ==
    [ev |-> ev, fn |-> fn, fd |-> fd, pfd |-> pfd, path |-> path,
     access |-> access, ret |-> ret]

Logged(m, e) == [m EXCEPT !.log = Append(@, e)]

\* fprintf(stderr, ...): kind is "Warning" or "Error"
Stderr(m, kind, path) == Logged(m, Ev("stderr", kind, NoFd, NoFd, path, {}, 0))

\* exit(1), errExit(...), a failed assert
Exit(m, why) ==
    [Logged(m, Ev("exit", why, NoFd, NoFd, "", {}, 1)) EXCEPT !.alive = FALSE]

\* the lowest descriptor number not in use
LowestFree(t) ==
    CHOOSE n \in 0..Cardinality(DOMAIN t) :
        n \notin DOMAIN t /\ \A k \in 0..(n - 1) : k \in DOMAIN t

Obj(kind, path, handled, rules) ==
    [kind |-> kind, path |-> path, handled |-> handled, rules |-> rules]

IsOpen(t, fd, kind) == fd \in DOMAIN t /\ t[fd].kind = kind

\* open(path, O_PATH | O_CLOEXEC)
SysOpen(m, path) ==
    IF path \in m.fs
    THEN LET fd == LowestFree(m.fds)
         IN  [m EXCEPT !.fds = (fd :> Obj("path", path, {}, {})) @@ m.fds,
                       !.ret = fd]
    ELSE [m EXCEPT !.ret = -1]

\* close(fd)
SysClose(m, fd) ==
    IF fd \in DOMAIN m.fds
    THEN [m EXCEPT !.fds = [k \in DOMAIN m.fds \ {fd} |-> m.fds[k]],
                   !.ret = 0]
    ELSE [m EXCEPT !.ret = -1]

\* landlock_create_ruleset(&attr, sizeof(attr), 0)
ll_create_ruleset(m, handled) ==
    LET ok == m.lsm /\ handled # {}
        fd == LowestFree(m.fds)
    IN  IF ok
        THEN [Logged(m, Ev("create_ruleset", "", fd, NoFd, "", handled, fd))
                 EXCEPT !.fds = (fd :> Obj("ruleset", "", handled, {})) @@ m.fds,
                        !.ret = fd]
        ELSE [Logged(m, Ev("create_ruleset", "", NoFd, NoFd, "", handled, -1))
                 EXCEPT !.ret = -1]

\* the rule (path, access) merged into a ruleset's grants
AddGrants(rules, path, access) == rules \cup {<<path, a>> : a \in access}

\* landlock_add_rule(fd, LANDLOCK_RULE_PATH_BENEATH, &target, 0)
ll_add_rule(m, fd, parent_fd, allowed_access) ==
    LET valid == /\ IsOpen(m.fds, fd, "ruleset")
                 /\ allowed_access # {}
                 /\ allowed_access \subseteq m.fds[fd].handled
                 /\ IsOpen(m.fds, parent_fd, "path")
        ok    == valid /\ m.nadd + 1 # m.o.reject
        path  == IF IsOpen(m.fds, parent_fd, "path") THEN m.fds[parent_fd].path ELSE ""
        m1    == [m EXCEPT !.nadd = @ + 1]
    IN  IF ok
        THEN [Logged(m1, Ev("add_rule", "", fd, parent_fd, path, allowed_access, 0))
                 EXCEPT !.fds[fd].rules = AddGrants(@, path, allowed_access),
                        !.ret = 0]
        ELSE [Logged(m1, Ev("add_rule", "", fd, parent_fd, path, allowed_access, -1))
                 EXCEPT !.ret = -1]

\* prctl(PR_SET_NO_NEW_PRIVS, 1, 0, 0, 0)
SysPrctlNoNewPrivs(m) ==
    [Logged(m, Ev("prctl", "", NoFd, NoFd, "", {}, 0)) EXCEPT !.nnp = TRUE, !.ret = 0]

\* landlock_restrict_self(ruleset_fd, flags)
landlock_restrict_self(m, ruleset_fd, flags) ==
    LET ok == /\ flags = 0
              /\ m.nnp
              /\ IsOpen(m.fds, ruleset_fd, "ruleset")
    IN  IF ok
        THEN [Logged(m, Ev("restrict_self", "", ruleset_fd, NoFd, "", {}, 0))
                 EXCEPT !.domain = Append(@, m.fds[ruleset_fd].rules),
                        !.ret = 0]
        ELSE [Logged(m, Ev("restrict_self", "", ruleset_fd, NoFd, "", {}, -1))
                 EXCEPT !.ret = -1]

(***************************************************************************)
(* The helpers of the four access classes.                                 *)
(***************************************************************************)
\* ll_create_full_ruleset with LANDLOCK_ACCESS_FS_EXECUTE left out of the
\* handled accesses
LlCreateFullRulesetNoExecute(m) ==
    ll_create_ruleset(m, HandledAccess \ {"execute"})

\* ll_create_full_ruleset(): the descriptor of a new ruleset, or -1
ll_create_full_ruleset(m) == ll_create_ruleset(m, HandledAccess)

\* EnsureRuleset creating a ruleset also when rset_fd names a descriptor
\* that is not an open ruleset any more
EnsureRulesetReopens(m) ==
    LET Assign(c) == [c EXCEPT !.rset_fd = c.ret]
    IN  IF m.rset_fd = -1 \/ ~IsOpen(m.fds, m.rset_fd, "ruleset")
        THEN Assign(ll_create_full_ruleset(m)) ELSE m

\* EnsureRuleset without the test: every helper call creates a ruleset
EnsureRulesetAlways(m) ==
    LET Assign(c) == [c EXCEPT !.rset_fd = c.ret]
    IN  Assign(ll_create_full_ruleset(m))

\* if (rset_fd == -1) rset_fd = ll_create_full_ruleset();
EnsureRuleset(m) ==
    LET Assign(c) == [c EXCEPT !.rset_fd = c.ret]
    IN  IF m.rset_fd = -1 THEN Assign(ll_create_full_ruleset(m)) ELSE m

\* PathBeneath returning the result of close() for that of the add-rule call
PathBeneathReturnsClose(m, allowed_path, allowed_access) ==
    LET Close(m3, allowed_fd) == SysClose(m3, allowed_fd)
        AddRule(m2) ==
            Close(ll_add_rule(m2, m2.rset_fd, m2.ret, allowed_access), m2.ret)
    IN  AddRule(SysOpen(EnsureRuleset(m), allowed_path))

\* PathBeneath returning at once, the path descriptor left open, when the
\* add-rule call fails
PathBeneathLeaksOnFailure(m, allowed_path, allowed_access) ==
    LET Close(m3, allowed_fd) ==
            IF m3.ret # 0 THEN m3
            ELSE [SysClose(m3, allowed_fd) EXCEPT !.ret = m3.ret]
        AddRule(m2) ==
            Close(ll_add_rule(m2, m2.rset_fd, m2.ret, allowed_access), m2.ret)
    IN  AddRule(SysOpen(EnsureRuleset(m), allowed_path))

\* the part the four helpers share after the kernel check: open the path,
\* submit the rule with the class's mask, close the path descriptor, return
\* the result of the add-rule call
PathBeneath(m, allowed_path, allowed_access) ==
    LET Close(m3, allowed_fd) == [SysClose(m3, allowed_fd) EXCEPT !.ret = m3.ret]
        AddRule(m2) ==
            Close(ll_add_rule(m2, m2.rset_fd, m2.ret, allowed_access), m2.ret)
    IN  AddRule(SysOpen(EnsureRuleset(m), allowed_path))

\* Helper that gives up the process on an old kernel
HelperExitsOnOldKernel(m, fn, allowed_path, allowed_access) ==
    LET Body(m0, k) ==
            IF k.exited THEN Exit(m0, k.why)
            ELSE IF k.rv # 0 THEN Exit(Stderr(m0, "Warning", ""), "old kernel")
            ELSE PathBeneath(m0, allowed_path, allowed_access)
    IN  Body(Logged(m, Ev("call", fn, NoFd, NoFd, allowed_path, allowed_access, 0)),
             old_kernel(Uname(m)))

\* the kernel check that opens every helper
Helper(m, fn, allowed_path, allowed_access) ==
    LET Body(m0, k) ==
            IF k.exited THEN Exit(m0, k.why)
            ELSE IF k.rv # 0 THEN [Stderr(m0, "Warning", "") EXCEPT !.ret = 1]
            ELSE PathBeneath(m0, allowed_path, allowed_access)
    IN  Body(Logged(m, Ev("call", fn, NoFd, NoFd, allowed_path, allowed_access, 0)),
             old_kernel(Uname(m)))

ll_read(m, allowed_path) == Helper(m, "ll_read", allowed_path, ReadAccess)

ll_write(m, allowed_path) == Helper(m, "ll_write", allowed_path, WriteAccess)

\* ll_special with the mask of ll_write left in place
LlSpecialWriteMask(m, allowed_path) ==
    Helper(m, "ll_special", allowed_path, WriteAccess)

ll_special(m, allowed_path) == Helper(m, "ll_special", allowed_path, SpecialAccess)

ll_exec(m, allowed_path) == Helper(m, "ll_exec", allowed_path, ExecAccess)

\* a call through a helper's name
CallHelper(m, fn, path) ==
    CASE fn = "ll_read"    -> ll_read(m, path)
      [] fn = "ll_write"   -> ll_write(m, path)
      [] fn = "ll_special" -> ll_special(m, path)
      [] fn = "ll_exec"    -> ll_exec(m, path)

(***************************************************************************)
(* ll_basic_system: the baseline policy.                                   *)
(***************************************************************************)
\* asprintf(&rundir, "/run/user/%d", getuid())
RunDir(uid) == "/run/user/" \o ToString(uid)

\* the helper calls of the || chain, in source order
BasicCalls(rundir) ==
    << <<"ll_read", "/">>, <<"ll_special", "/">>,
       <<"ll_write", "/tmp">>, <<"ll_write", "/dev">>,
       <<"ll_write", "/run/shm">>, <<"ll_write", rundir>>,
       <<"ll_exec", "/opt">>, <<"ll_exec", "/bin">>, <<"ll_exec", "/sbin">>,
       <<"ll_exec", "/bin">>, <<"ll_exec", "/lib">>, <<"ll_exec", "/lib32">>,
       <<"ll_exec", "/libx32">>, <<"ll_exec", "/lib64">>,
       <<"ll_exec", "/usr/bin">>, <<"ll_exec", "/usr/sbin">>,
       <<"ll_exec", "/usr/games">>, <<"ll_exec", "/usr/lib">>,
       <<"ll_exec", "/usr/lib32">>, <<"ll_exec", "/usr/libx32">>,
       <<"ll_exec", "/usr/lib64">>, <<"ll_exec", "/usr/local/bin">>,
       <<"ll_exec", "/usr/local/sbin">>, <<"ll_exec", "/usr/local/games">>,
       <<"ll_exec", "/usr/local/lib">>, <<"ll_exec", "/run/firejail">> >>

\* a || b || ...: the calls from the i-th on; ret is 1 when one returned
\* non-zero (the calls after it are not evaluated), 0 when none did
RECURSIVE OrChain(_, _, _)
OrChain(m, calls, i) ==
    LET Or(r) ==
            IF ~r.alive THEN r
            ELSE IF r.ret # 0 THEN [r EXCEPT !.ret = 1]
            ELSE OrChain(r, calls, i + 1)
    IN  IF i > Len(calls) THEN [m EXCEPT !.ret = 0]
        ELSE Or(CallHelper(m, calls[i][1], calls[i][2]))

\* the home directory rule
HomeRule(m) ==
    LET Report(m2) == IF m2.ret # 0 THEN Stderr(m2, "Error", "basic") ELSE m2
        AddRule(m1) ==
            SysClose(Report(ll_add_rule(m1, m1.rset_fd, m1.ret, HomeAccess)),
                     m1.ret)
    IN  AddRule(SysOpen(m, m.user.homedir))

ll_basic_system(m) ==
    LET Report(m2) ==
            IF ~m2.alive THEN m2
            ELSE IF m2.ret # 0 THEN [Stderr(m2, "Error", "basic") EXCEPT !.ret = 0]
            ELSE [m2 EXCEPT !.ret = 0]
        Chain(m1) ==
            IF ~m.o.memOk THEN Exit(m1, "asprintf")
            ELSE Report(OrChain(m1, BasicCalls(RunDir(m.user.uid)), 1))
        Body(k) ==
            IF k.exited THEN Exit(m, k.why)
            ELSE IF k.rv # 0 THEN [Stderr(m, "Warning", "") EXCEPT !.ret = 0]
            ELSE Chain(HomeRule(EnsureRuleset(m)))
    IN  Body(old_kernel(Uname(m)))

(***************************************************************************)
(* ll_restrict: the directive walk and the commit.                         *)
(***************************************************************************)
\* strncmp(data, keyword, n) == 0, n being the keyword's length
HasPrefix(data, keyword) ==
    Len(data) >= Len(keyword) /\ SubSeq(data, 1, Len(keyword)) = keyword

\* data + n: the string from the n-th character (counted from 0) on
From(data, n) == SubSeq(data, n + 1, Len(data))

\* Classify with the file name of landlock.execute taken one character early
ClassifyOffByOne(data) ==
    IF HasPrefix(data, "landlock.read")
    THEN [fnc |-> "ll_read", fname |-> From(data, 14)]
    ELSE IF HasPrefix(data, "landlock.write")
    THEN [fnc |-> "ll_write", fname |-> From(data, 15)]
    ELSE IF HasPrefix(data, "landlock.special")
    THEN [fnc |-> "ll_special", fname |-> From(data, 17)]
    ELSE IF HasPrefix(data, "landlock.execute")
    THEN [fnc |-> "ll_exec", fname |-> From(data, 16)]
    ELSE [fnc |-> "", fname |-> ""]

\* the helper and the file name of one directive; fnc is "" when no
\* keyword matches
Classify(data) ==
    IF HasPrefix(data, "landlock.read")
    THEN [fnc |-> "ll_read", fname |-> From(data, 14)]
    ELSE IF HasPrefix(data, "landlock.write")
    THEN [fnc |-> "ll_write", fname |-> From(data, 15)]
    ELSE IF HasPrefix(data, "landlock.special")
    THEN [fnc |-> "ll_special", fname |-> From(data, 17)]
    ELSE IF HasPrefix(data, "landlock.execute")
    THEN [fnc |-> "ll_exec", fname |-> From(data, 17)]
    ELSE [fnc |-> "", fname |-> ""]

\* access(fname, F_OK) == 0
Access(m, fname) == fname \in m.fs

\* WalkEntry without the access() test
WalkEntryNoAccessCheck(m, data) ==
    LET Report(r, fname) ==
            IF r.alive /\ r.ret # 0 THEN Stderr(r, "Error", fname) ELSE r
        Apply(c) ==
            IF c.fnc = "" THEN Exit(m, "assert")
            ELSE Report(CallHelper(m, c.fnc, c.fname), c.fname)
    IN  Apply(Classify(data))

\* one turn of the while loop, on the entry ptr points to
WalkEntry(m, data) ==
    LET Report(r, fname) ==
            IF r.alive /\ r.ret # 0 THEN Stderr(r, "Error", fname) ELSE r
        Apply(c) ==
            IF c.fnc = "" THEN Exit(m, "assert")
            ELSE IF Access(m, c.fname)
            THEN Report(CallHelper(m, c.fnc, c.fname), c.fname)
            ELSE m
    IN  Apply(Classify(data))

\* Walk leaving the loop at the first helper that returns non-zero
RECURSIVE WalkStopsOnFailure(_, _)
WalkStopsOnFailure(m, i) ==
    LET Advance(r) ==
            IF ~r.alive \/ r.ret # 0 THEN r ELSE WalkStopsOnFailure(r, i + 1)
    IN  IF i > Len(m.lprofile) THEN m
        ELSE Advance(WalkEntry(m, m.lprofile[i]))

\* while (ptr) { ...; ptr = ptr->next; } from the i-th entry of the list on
RECURSIVE Walk(_, _)
Walk(m, i) ==
    LET Advance(r) == IF ~r.alive THEN r ELSE Walk(r, i + 1)
    IN  IF i > Len(m.lprofile) THEN m
        ELSE Advance(WalkEntry(m, m.lprofile[i]))

\* Commit with the two calls exchanged: restrict-self, then prctl
CommitRestrictsFirst(m, flags) ==
    LET Finish(m2, result) ==
            IF result # 0 THEN [m2 EXCEPT !.ret = result]
            ELSE [SysClose(m2, m2.rset_fd) EXCEPT !.ret = 0]
        Prctl(m1) == Finish(SysPrctlNoNewPrivs(m1), m1.ret)
    IN  Prctl(landlock_restrict_self(m, m.rset_fd, flags))

\* Commit that also forgets the descriptor it has closed
CommitForgetsFd(m, flags) ==
    LET Finish(m2) ==
            IF m2.ret # 0 THEN m2
            ELSE [SysClose(m2, m2.rset_fd) EXCEPT !.ret = 0, !.rset_fd = -1]
        Restrict(m1) == Finish(landlock_restrict_self(m1, m1.rset_fd, flags))
    IN  Restrict(SysPrctlNoNewPrivs(m))

\* Commit that closes the descriptor whatever restrict-self answered
CommitClosesAlways(m, flags) ==
    LET Finish(m2) == [SysClose(m2, m2.rset_fd) EXCEPT !.ret = m2.ret]
        Restrict(m1) == Finish(landlock_restrict_self(m1, m1.rset_fd, flags))
    IN  Restrict(SysPrctlNoNewPrivs(m))

\* the commit: no_new_privs, restrict-self, and on success close; the
\* result of restrict-self is returned
Commit(m, flags) ==
    LET Finish(m2) ==
            IF m2.ret # 0 THEN m2
            ELSE [SysClose(m2, m2.rset_fd) EXCEPT !.ret = 0]
        Restrict(m1) == Finish(landlock_restrict_self(m1, m1.rset_fd, flags))
    IN  Restrict(SysPrctlNoNewPrivs(m))

\* ll_restrict without the test for an absent ruleset
LlRestrictAlwaysCommits(m, flags) ==
    LET AfterWalk(m1) == IF ~m1.alive THEN m1 ELSE Commit(m1, flags)
        Body(k) ==
            IF k.exited THEN Exit(m, k.why)
            ELSE IF k.rv # 0 THEN [Stderr(m, "Warning", "") EXCEPT !.ret = 0]
            ELSE AfterWalk(Walk(m, 1))
    IN  Body(old_kernel(Uname(m)))

ll_restrict(m, flags) ==
    LET AfterWalk(m1) ==
            IF ~m1.alive THEN m1
            ELSE IF m1.rset_fd = -1 THEN [m1 EXCEPT !.ret = 0]
            ELSE Commit(m1, flags)
        Body(k) ==
            IF k.exited THEN Exit(m, k.why)
            ELSE IF k.rv # 0 THEN [Stderr(m, "Warning", "") EXCEPT !.ret = 0]
            ELSE AfterWalk(Walk(m, 1))
    IN  Body(old_kernel(Uname(m)))

(***************************************************************************)
(* ll_add_profile: a directive is put at the head of cfg.lprofile.         *)
(***************************************************************************)
ll_add_profile(m, data) ==
    LET Body(k) ==
            IF k.exited THEN Exit(m, k.why)
            ELSE IF k.rv # 0 THEN [m EXCEPT !.ret = 0]
            ELSE IF ~m.o.memOk THEN Exit(m, "malloc")
            ELSE [m EXCEPT !.lprofile = <<data>> \o @, !.ret = 0]
    IN  Body(old_kernel(Uname(m)))

(***************************************************************************)
(* The environment the process runs in, and the inputs of the entry points.*)
(***************************************************************************)
\* the directories of a system that has them all
FsFull ==
    {"/", "/tmp", "/dev", "/run/shm", "/run/user/1000", "/home/user",
     "/opt", "/bin", "/sbin", "/lib", "/lib32", "/libx32", "/lib64",
     "/usr/bin", "/usr/sbin", "/usr/games", "/usr/lib", "/usr/lib32",
     "/usr/libx32", "/usr/lib64", "/usr/local/bin", "/usr/local/sbin",
     "/usr/local/games", "/usr/local/lib", "/run/firejail",
     "/opt/app", "/srv/data"}

\* a system without the 32-bit library directories and without /srv/data
FsNoLib32 ==
    FsFull \ {"/lib32", "/libx32", "/usr/lib32", "/usr/libx32", "/srv/data"}

Host(rv, r, uid, homedir, f, l) ==
    [uname_rv |-> rv, release |-> r,
     user |-> [uid |-> uid, homedir |-> homedir], fs |-> f, lsm |-> l]

\* the machines the process is started on: what uname() returns and
\* reports, getuid() and cfg.homedir, the directories that exist, Landlock
\* enabled or not
Hosts ==
    {Host(0, "6.5.0", 1000, "/home/user", FsFull, TRUE),
     Host(0, "6.1.0", 65534, "/", FsNoLib32, TRUE),
     Host(0, "6.5.0", 1000, "/home/user", FsNoLib32, FALSE),
     Host(0, "6.0.9", 1000, "/home/user", FsFull, FALSE),
     Host(0, "5.15.0", 65534, "/", FsNoLib32, FALSE),
     Host(0, "unknown", 1000, "/home/user", FsFull, TRUE),
     Host(-1, "6.5.0", 1000, "/home/user", FsFull, TRUE)}

\* the directives the profile parser hands to ll_add_profile
Directives ==
    {"landlock.read /srv/data", "landlock.write /srv/data",
     "landlock.special /opt/app", "landlock.execute /opt/app"}

\* the paths other code calls ll_read and ll_write with
ApiPaths == {"/srv/data"}

\* the flags argument of ll_restrict
RestrictFlags == {0, 1}

StdFds == (0 :> Obj("stdio", "", {}, {})) @@ (1 :> Obj("stdio", "", {}, {}))
          @@ (2 :> Obj("stdio", "", {}, {}))

NoOp == [name |-> "", arg |-> "", flags |-> 0, ret |-> 0, log |-> <<>>]

Init ==
    /\ \E h \in Hosts :
         /\ uname_rv = h.uname_rv
         /\ release = h.release
         /\ user = h.user
         /\ fs = h.fs
         /\ lsm = h.lsm
    /\ rset_fd = -1
    /\ fds = StdFds
    /\ nnp = FALSE
    /\ domain = <<>>
    /\ lprofile = <<>>
    /\ alive = TRUE
    /\ lastOp = NoOp

\* the kernel's answers during one entry point: the add-rule call it rejects
\* although the rule is valid (counted from 1; 0 for none), and whether
\* memory can be allocated
Oracle(reject, memOk) == [reject |-> reject, memOk |-> memOk]

\* the state an entry point starts from
Enter(o) ==
    [uname_rv |-> uname_rv, release |-> release, user |-> user, fs |-> fs,
     lsm |-> lsm,
     rset_fd |-> rset_fd, fds |-> fds, nnp |-> nnp, domain |-> domain,
     lprofile |-> lprofile, alive |-> alive, log |-> <<>>, ret |-> 0,
     nadd |-> 0, o |-> o]

\* the state an entry point leaves; when the process has exited, its
\* descriptors are closed and its memory is gone
Leave(name, arg, flags, m) ==
    /\ rset_fd' = IF m.alive THEN m.rset_fd ELSE -1
    /\ fds' = IF m.alive THEN m.fds ELSE StdFds
    /\ nnp' = m.nnp
    /\ domain' = m.domain
    /\ lprofile' = IF m.alive THEN m.lprofile ELSE <<>>
    /\ alive' = m.alive
    /\ lastOp' = [name |-> name, arg |-> arg, flags |-> flags,
                  ret |-> m.ret, log |-> m.log]
    /\ UNCHANGED <<uname_rv, release, user, fs, lsm>>

LlRead ==
    /\ alive
    /\ \E p \in ApiPaths, rej \in 0..1 :
         Leave("ll_read", p, 0, ll_read(Enter(Oracle(rej, TRUE)), p))

LlWrite ==
    /\ alive
    /\ \E p \in ApiPaths, rej \in 0..1 :
         Leave("ll_write", p, 0, ll_write(Enter(Oracle(rej, TRUE)), p))

LlBasicSystem ==
    /\ alive
    /\ \E memOk \in BOOLEAN :
         Leave("ll_basic_system", "", 0,
               ll_basic_system(Enter(Oracle(0, memOk))))

LlRestrict ==
    /\ alive
    /\ \E flags \in RestrictFlags, rej \in 0..Len(lprofile) :
         Leave("ll_restrict", "", flags,
               ll_restrict(Enter(Oracle(rej, TRUE)), flags))

LlAddProfile ==
    /\ alive
    /\ Len(lprofile) < MaxQueue
    /\ \E data \in Directives, memOk \in BOOLEAN :
         Leave("ll_add_profile", data, 0,
               ll_add_profile(Enter(Oracle(0, memOk)), data))

Next == LlRead \/ LlWrite \/ LlBasicSystem \/ LlRestrict \/ LlAddProfile

Spec == Init /\ [][Next]_vars

(***************************************************************************)
(* The probe on its own: a kernel of version major.minor is booted and     *)
(* old_kernel() is asked.                                                  *)
(***************************************************************************)
ProbeMajors == {0, 1, 5, 6, 7, 255, 256, 16777215, 16777216, 16777222}

ProbeMinors == {0, 1, 2, 255, 256, 257, 1536, 1537, 65535, 65536, 2147483647}

\* utsname.release of a kernel of that version
ReleaseOf(major, minor) == ToString(major) \o "." \o ToString(minor) \o ".0"

Probe ==
    \E major \in ProbeMajors, minor \in ProbeMinors :
        /\ uname_rv = 0
        /\ release' = ReleaseOf(major, minor)
        /\ lastOp' = [name |-> "old_kernel", arg |-> <<major, minor>>,
                      flags |-> 0,
                      ret |-> old_kernel([rv |-> uname_rv, release |-> release']).rv,
                      log |-> <<>>]
        /\ UNCHANGED <<uname_rv, user, fs, lsm, rset_fd, fds, nnp, domain, lprofile, alive>>

SpecProbe == Init /\ [][Probe]_vars

(***************************************************************************)
(* What the claims speak of.                                               *)
(***************************************************************************)
\* major.minor >= 6.1 in the order of (major, minor) pairs
AtLeast61(major, minor) == major > 6 \/ (major = 6 /\ minor >= 1)

\* the running kernel reports a version, and it is 6.1 or later
KernelSupported ==
    LET p == Sscanf(release)
    IN  uname_rv = 0 /\ p.n = 2 /\ AtLeast61(p.major, p.minor)

\* the running kernel reports a version, and it is below 6.1
KernelBelow61 ==
    LET p == Sscanf(release)
    IN  uname_rv = 0 /\ p.n = 2 /\ ~AtLeast61(p.major, p.minor)

\* the events of one kind in a log
EventsOf(log, ev) == SelectSeq(log, LAMBDA e : e.ev = ev)

HasEvent(log, ev) == \E i \in 1..Len(log) : log[i].ev = ev

\* an add-rule call the kernel accepted
HasAddedRule(log) ==
    \E i \in 1..Len(log) : log[i].ev = "add_rule" /\ log[i].ret = 0

\* a restrict-self call of the given result kind
HasRestrict(log, ok) ==
    \E i \in 1..Len(log) :
        log[i].ev = "restrict_self" /\ ((log[i].ret = 0) <=> ok)

HasError(log) ==
    \E i \in 1..Len(log) : log[i].ev = "stderr" /\ log[i].fn = "Error"

\* the grants the accepted add-rule calls of a log have put into the ruleset
GrantsOf(log) ==
    UNION {{<<log[i].path, a>> : a \in log[i].access} :
             i \in {j \in 1..Len(log) : log[j].ev = "add_rule" /\ log[j].ret = 0}}

\* a commit has succeeded
Committed == Len(domain) > 0

\* a commit had succeeded before the last entry point was called
CommittedBefore == Committed /\ ~HasRestrict(lastOp.log, TRUE)

NoRulesetOpen(t) == \A fd \in DOMAIN t : t[fd].kind # "ruleset"

\* the grants of the ruleset rset_fd refers to ({} when it refers to none)
RulesOf(t, fd) == IF IsOpen(t, fd, "ruleset") THEN t[fd].rules ELSE {}

\* the path of a directive "<keyword> <path>": the text after the blank
RECURSIVE BlankAt(_, _)
BlankAt(d, i) ==
    IF i > Len(d) \/ CharAt(d, i) = " " THEN i ELSE BlankAt(d, i + 1)

DirectivePath(d) == SubSeq(d, BlankAt(d, 1) + 1, Len(d))

DirectiveKeyword(d) == SubSeq(d, 1, BlankAt(d, 1) - 1)

\* the mask of a keyword's class, as the specification's table gives it
KeywordMask(k) ==
    CASE k = "landlock.read"    -> {"read_file", "read_dir"}
      [] k = "landlock.write"   -> {"write_file", "remove_file", "remove_dir",
                                    "make_char", "make_dir", "make_reg", "make_sym"}
      [] k = "landlock.special" -> {"make_sock", "make_fifo", "make_block"}
      [] k = "landlock.execute" -> {"execute"}

\* the positions of the queue whose directive names an existing path
Existing == {i \in 1..Len(lprofile) : DirectivePath(lprofile[i]) \in fs}

Missing == (1..Len(lprofile)) \ Existing

\* the last entry point was ll_restrict, and it walked the queue
RestrictWalked == lastOp.name = "ll_restrict" /\ KernelSupported /\ alive

\* the last entry point was ll_basic_system, it ran to its end, and the
\* ruleset holds nothing but what it has added
BasicAlone ==
    /\ lastOp.name = "ll_basic_system"
    /\ KernelSupported
    /\ alive
    /\ RulesOf(fds, rset_fd) = GrantsOf(lastOp.log)

WriteClassBits ==
    {"write_file", "remove_file", "remove_dir", "make_char", "make_dir",
     "make_reg", "make_sym"}

RootBits == {"read_file", "read_dir", "make_sock", "make_fifo", "make_block"}

WriteLocations ==
    {"/tmp", "/dev", "/run/shm", "/run/user/" \o ToString(user.uid), user.homedir}

HelperNames == {"ll_read", "ll_write", "ll_special", "ll_exec"}

\* the mask of a helper's class, as the specification's table gives it
ClassMask(fn) ==
    CASE fn = "ll_read"    -> KeywordMask("landlock.read")
      [] fn = "ll_write"   -> KeywordMask("landlock.write")
      [] fn = "ll_special" -> KeywordMask("landlock.special")
      [] fn = "ll_exec"    -> KeywordMask("landlock.execute")

\* the grants of one rule
RuleGrants(path, mask) == {<<path, a>> : a \in mask}

\* the helper calls that are tried on a state: two classes on one path, a
\* class on two paths
TrialCalls ==
    {<<"ll_read", "/srv/data">>, <<"ll_write", "/srv/data">>,
     <<"ll_special", "/opt/app">>, <<"ll_exec", "/srv/data">>}

\* the grants of the ruleset a run's rset_fd refers to
Held(r) == RulesOf(r.fds, r.rset_fd)

(***************************************************************************)
(* The claims.                                                             *)
(***************************************************************************)
\* C1: on a supported kernel, a call of ll_restrict after a commit has
\* succeeded returns 0, submits no add-rule, does not invoke restrict-self
\* and reports no error.
C1_SecondRestrictIsNoOp ==
    (lastOp.name = "ll_restrict" /\ KernelSupported /\ CommittedBefore)
    => /\ lastOp.ret = 0
       /\ ~HasEvent(lastOp.log, "add_rule")
       /\ ~HasEvent(lastOp.log, "restrict_self")
       /\ ~HasError(lastOp.log)

\* C2: once a commit has succeeded the ruleset descriptor is closed, and in
\* every later call no add-rule succeeds, no ruleset is created and the
\* enforced rules stay what they were.
C2_NoRuleAfterCommit ==
    [][/\ Committed' => NoRulesetOpen(fds')
       /\ Committed => /\ Committed'
                       /\ domain' = domain
                       /\ ~HasAddedRule(lastOp'.log)
                       /\ ~HasEvent(lastOp'.log, "create_ruleset")]_vars

\* a helper or the baseline was called after the commit and its add-rule
\* was submitted
C2_Witness ==
    /\ CommittedBefore
    /\ lastOp.name \in {"ll_read", "ll_write", "ll_basic_system"}
    /\ HasEvent(lastOp.log, "add_rule")

\* C3: when restrict-self fails on a ruleset that has not been committed,
\* ll_restrict returns the kernel's non-zero result, rset_fd still refers to
\* the open ruleset, and the ruleset holds the rules it held plus those the
\* walk of this call added.
C3_FailedCommitKeepsRuleset ==
    [][(/\ lastOp'.name = "ll_restrict"
        /\ HasRestrict(lastOp'.log, FALSE)
        /\ ~Committed)
       => /\ lastOp'.ret # 0
          /\ \E i \in 1..Len(lastOp'.log) :
                /\ lastOp'.log[i].ev = "restrict_self"
                /\ lastOp'.log[i].ret = lastOp'.ret
                /\ lastOp'.log[i].fd = rset_fd'
          /\ IsOpen(fds', rset_fd', "ruleset")
          /\ ~Committed'
          /\ RulesOf(fds', rset_fd') =
                RulesOf(fds, rset_fd) \cup GrantsOf(lastOp'.log)]_vars

C3_Witness ==
    /\ lastOp.name = "ll_restrict"
    /\ HasRestrict(lastOp.log, FALSE)
    /\ lastOp.ret # 0
    /\ ~Committed
    /\ IsOpen(fds, rset_fd, "ruleset")
    /\ RulesOf(fds, rset_fd) # {}

\* C4: when the kernel is below 6.1 or rset_fd is -1 after the walk,
\* ll_restrict returns 0 without prctl and without restrict-self, and
\* rset_fd is -1.
C4_RestrictNoOp ==
    (lastOp.name = "ll_restrict" /\ alive /\ (KernelBelow61 \/ rset_fd = -1))
    => /\ lastOp.ret = 0
       /\ ~HasEvent(lastOp.log, "prctl")
       /\ ~HasEvent(lastOp.log, "restrict_self")
       /\ rset_fd = -1

\* the walk called a helper, no ruleset could be created
C4_Witness ==
    /\ lastOp.name = "ll_restrict"
    /\ KernelSupported
    /\ rset_fd = -1
    /\ HasEvent(lastOp.log, "create_ruleset")
    /\ lastOp.ret = 0

\* C5: on a kernel below 6.1 no ruleset is created, no rule added, nothing
\* enforced, whatever is called: the helpers return 1, ll_restrict returns 0.
C5_UnsupportedKernelInert ==
    KernelBelow61
    => /\ rset_fd = -1
       /\ NoRulesetOpen(fds)
       /\ domain = <<>>
       /\ ~HasEvent(lastOp.log, "create_ruleset")
       /\ ~HasEvent(lastOp.log, "add_rule")
       /\ ~HasEvent(lastOp.log, "restrict_self")
       /\ lastOp.name \in HelperNames => lastOp.ret = 1
       /\ lastOp.name = "ll_restrict" => lastOp.ret = 0
       /\ \A fn \in HelperNames, p \in ApiPaths :
             LET Inert(r) == /\ r.ret = 1
                             /\ r.rset_fd = -1
                             /\ r.fds = fds
                             /\ ~HasEvent(r.log, "create_ruleset")
                             /\ ~HasEvent(r.log, "add_rule")
             IN  Inert(CallHelper(Enter(Oracle(0, TRUE)), fn, p))

C5_Witness ==
    /\ KernelBelow61
    /\ lastOp.name = "ll_write"
    /\ lastOp.ret = 1

\* C6: old_kernel returns 0 exactly for the versions major.minor that are
\* 6.1 or later in the order of (major, minor) pairs.
C6_ProbeMatchesVersion ==
    lastOp.name = "old_kernel"
    => ((lastOp.ret = 0) <=> AtLeast61(lastOp.arg[1], lastOp.arg[2]))

\* C7: ll_basic_system on a supported kernel makes every helper call of its
\* list, also those after a call that failed.
C7_BaselineAppliesAll ==
    (lastOp.name = "ll_basic_system" /\ KernelSupported /\ alive)
    => LET calls == EventsOf(lastOp.log, "call")
           list  == BasicCalls(RunDir(user.uid))
       IN  /\ Len(calls) = Len(list)
           /\ \A i \in 1..Len(list) :
                 calls[i].fn = list[i][1] /\ calls[i].path = list[i][2]

\* C8, as claimed: after ll_basic_system alone every grant of a write-class
\* bit is on /tmp, /dev, /run/shm, /run/user/<uid> or the home directory,
\* and the grants on / are read-file, read-dir, make-sock, make-fifo and
\* make-block only.
C8_RootCarriesNoWrite ==
    BasicAlone
    => \A g \in RulesOf(fds, rset_fd) :
          /\ g[2] \in WriteClassBits => g[1] \in WriteLocations
          /\ g[1] = "/" => g[2] \in RootBits

\* C8, amended: the same, the grants on / being restricted to those five
\* bits when the home directory is not / itself.
C8_WriteConfined ==
    BasicAlone
    => \A g \in RulesOf(fds, rset_fd) :
          /\ g[2] \in WriteClassBits => g[1] \in WriteLocations
          /\ (g[1] = "/" /\ user.homedir # "/") => g[2] \in RootBits

C8_Witness ==
    /\ BasicAlone
    /\ user.homedir # "/"
    /\ {<<"/", "read_file">>, <<"/", "make_sock">>, <<"/tmp", "make_reg">>,
        <<user.homedir, "make_reg">>} \subseteq RulesOf(fds, rset_fd)

\* C9: in ll_restrict on a supported kernel, a directive whose path does not
\* exist causes no call, no system call and no message, and the directives
\* whose path exists are all applied.
C9_MissingPathSkipped ==
    RestrictWalked
    => /\ \A i \in Missing : \A k \in 1..Len(lastOp.log) :
             lastOp.log[k].path # DirectivePath(lprofile[i])
       /\ Len(EventsOf(lastOp.log, "call")) = Cardinality(Existing)
       /\ Existing = {} => /\ ~HasEvent(lastOp.log, "create_ruleset")
                           /\ ~HasEvent(lastOp.log, "add_rule")
                           /\ ~HasError(lastOp.log)

\* a directive with a missing path stands before one that was applied
C9_Witness ==
    /\ RestrictWalked
    /\ \E i \in Missing, j \in Existing :
         /\ i < j
         /\ \E k \in 1..Len(lastOp.log) :
               /\ lastOp.log[k].ev = "call"
               /\ lastOp.log[k].path = DirectivePath(lprofile[j])

\* C10: ll_restrict submits, for each queued directive whose path exists,
\* one rule on that path with the mask of the keyword's class, and no other.
C10_OneRulePerDirective ==
    RestrictWalked
    => LET adds == EventsOf(lastOp.log, "add_rule")
       IN  /\ Len(adds) = Cardinality(Existing)
           /\ \A i \in Existing :
                 Cardinality({k \in 1..Len(adds) :
                     /\ adds[k].path = DirectivePath(lprofile[i])
                     /\ adds[k].access = KeywordMask(DirectiveKeyword(lprofile[i]))})
                 = Cardinality({j \in Existing : lprofile[j] = lprofile[i]})

C10_Witness ==
    /\ RestrictWalked
    /\ \E i, j \in Existing : lprofile[i] # lprofile[j]
    /\ LET adds == EventsOf(lastOp.log, "add_rule")
       IN  Len(adds) >= 2 /\ \A k \in 1..Len(adds) : adds[k].ret = 0

\* C11: from any state, two successful helper calls leave the same grants in
\* the ruleset in either order, namely the grants held before joined with
\* those of the two rules, and a successful call repeated leaves the grants
\* of the call made once.
C11_OrderIndependentUnion ==
    (alive /\ KernelSupported)
    => \A c1 \in TrialCalls :
          LET Second(a, c2) ==
                  LET Both(b, ab, ba) ==
                          (b.ret = 0 /\ ab.ret = 0 /\ ba.ret = 0)
                          => /\ Held(ab) = Held(ba)
                             /\ Held(ab) = Held(Enter(Oracle(0, TRUE)))
                                              \cup RuleGrants(c1[2], ClassMask(c1[1]))
                                              \cup RuleGrants(c2[2], ClassMask(c2[1]))
                  IN  Both(CallHelper(Enter(Oracle(0, TRUE)), c2[1], c2[2]),
                           CallHelper(a, c2[1], c2[2]),
                           CallHelper(CallHelper(Enter(Oracle(0, TRUE)), c2[1], c2[2]),
                                      c1[1], c1[2]))
              Twice(a, aa) == aa.ret = 0 => Held(aa) = Held(a)
              First(a) ==
                  a.ret = 0
                  => /\ Twice(a, CallHelper(a, c1[1], c1[2]))
                     /\ \A c2 \in TrialCalls : Second(a, c2)
          IN  First(CallHelper(Enter(Oracle(0, TRUE)), c1[1], c1[2]))

\* ll_read and ll_write have both added their rule on one path, and the
\* ruleset holds the grants of both
C11_Witness ==
    /\ KernelSupported
    /\ lastOp.name = "ll_write"
    /\ lastOp.ret = 0
    /\ HasAddedRule(lastOp.log)
    /\ RuleGrants(lastOp.arg, ClassMask("ll_read"))
          \cup RuleGrants(lastOp.arg, ClassMask("ll_write"))
          \subseteq RulesOf(fds, rset_fd)

\* C12: every add-rule call a helper or the baseline issues names a ruleset
\* descriptor that is open: never -1, never a descriptor a commit has closed.
C12_AddRuleOnOpenRuleset ==
    (alive /\ lastOp.name \in {"ll_read", "ll_write", "ll_basic_system"})
    => \A i \in 1..Len(lastOp.log) :
          lastOp.log[i].ev = "add_rule"
          => /\ lastOp.log[i].fd # -1
             /\ IsOpen(fds, lastOp.log[i].fd, "ruleset")

\* the queued directives in the order ll_add_profile was called with them
InsertionOrder == [k \in 1..Len(lprofile) |-> lprofile[Len(lprofile) + 1 - k]]

\* C13: the walk of ll_restrict calls the helpers for the queued directives
\* (those whose path exists) in the order the directives were added.
C13_WalkInInsertionOrder ==
    RestrictWalked
    => LET calls == EventsOf(lastOp.log, "call")
           due   == SelectSeq(InsertionOrder, LAMBDA d : DirectivePath(d) \in fs)
       IN  /\ Len(calls) = Len(due)
           /\ \A k \in 1..Len(due) :
                 /\ calls[k].path = DirectivePath(due[k])
                 /\ calls[k].access = KeywordMask(DirectiveKeyword(due[k]))

\* the open descriptors that position a rule on a path
PathFds(t) == {fd \in DOMAIN t : t[fd].kind = "path"}

\* C14: no call of a helper, of the baseline or of ll_restrict changes the
\* set of open path descriptors: what a helper opens it closes before it
\* returns, whatever the result.
C14_PathDescriptorsClosed ==
    [][PathFds(fds') = PathFds(fds)]_vars

\* a helper has opened its path, add-rule has failed, and no path
\* descriptor is left open
C14_Witness ==
    /\ alive
    /\ lastOp.name \in {"ll_read", "ll_write"}
    /\ lastOp.ret # 0
    /\ \E i \in 1..Len(lastOp.log) :
          /\ lastOp.log[i].ev = "add_rule"
          /\ lastOp.log[i].pfd # -1
          /\ lastOp.log[i].ret # 0
    /\ PathFds(fds) = {}

\* C15: the mask of every rule submitted lies within the handled accesses
\* the ruleset was created with, and so do the grants a ruleset holds.
C15_MasksWithinHandled ==
    /\ \A i \in 1..Len(lastOp.log) :
          lastOp.log[i].ev = "add_rule"
          => /\ IsOpen(fds, lastOp.log[i].fd, "ruleset")
                => lastOp.log[i].access \subseteq fds[lastOp.log[i].fd].handled
             /\ \A j \in 1..Len(lastOp.log) :
                   lastOp.log[j].ev = "create_ruleset"
                   => lastOp.log[i].access \subseteq lastOp.log[j].access
    /\ \A fd \in DOMAIN fds :
          fds[fd].kind = "ruleset"
          => {g[2] : g \in fds[fd].rules} \subseteq fds[fd].handled

\* the baseline has created the ruleset and added rules of all five masks
C15_Witness ==
    /\ lastOp.name = "ll_basic_system"
    /\ IsOpen(fds, rset_fd, "ruleset")
    /\ HasEvent(lastOp.log, "create_ruleset")
    /\ \A mask \in {ClassMask(fn) : fn \in HelperNames}
                     \cup {WriteClassBits \cup {"read_file", "read_dir"}} :
          \E i \in 1..Len(lastOp.log) :
             /\ lastOp.log[i].ev = "add_rule"
             /\ lastOp.log[i].access = mask
             /\ lastOp.log[i].ret = 0

\* C16: restrict-self is invoked by ll_restrict only, after the prctl call of
\* the same run has set no_new_privs, and the flag is in effect from then on.
C16_NoNewPrivsBeforeRestrict ==
    \A i \in 1..Len(lastOp.log) :
       lastOp.log[i].ev = "restrict_self"
       => /\ lastOp.name = "ll_restrict"
          /\ \E j \in 1..(i - 1) :
                lastOp.log[j].ev = "prctl" /\ lastOp.log[j].ret = 0
          /\ nnp

\* a commit has been made: prctl, then a restrict-self that succeeded
C16_Witness ==
    /\ lastOp.name = "ll_restrict"
    /\ HasEvent(lastOp.log, "prctl")
    /\ HasRestrict(lastOp.log, TRUE)
    /\ lastOp.ret = 0
    /\ nnp

\* the reason of the exit a log ends with ("" when it ends otherwise)
ExitReason(log) ==
    IF Len(log) > 0 /\ log[Len(log)].ev = "exit" THEN log[Len(log)].fn ELSE ""

\* uname() has answered with a release that "%u.%u" converts
VersionParsed == uname_rv = 0 /\ Sscanf(release).n = 2

\* a helper call that was made, and the helper calls tried on a live
\* process, with and without a rejected add-rule: P(alive, ret, log) holds
ForHelperRuns(P(_, _, _)) ==
    /\ lastOp.name \in HelperNames => P(alive, lastOp.ret, lastOp.log)
    /\ alive => \A c \in TrialCalls, rej \in 0..1 :
                   LET Run(r) == P(r.alive, r.ret, r.log)
                   IN  Run(CallHelper(Enter(Oracle(rej, TRUE)), c[1], c[2]))

\* C17, as claimed: a helper returns an integer to its caller whatever
\* fails; it ends the process only when the kernel's version string cannot
\* be parsed.
C17_ExitOnlyUnparsedVersion ==
    LET P(live, ret, log) ==
            IF live THEN ret \in {-1, 0, 1}
            ELSE ExitReason(log) = "sscanf" /\ uname_rv = 0 /\ Sscanf(release).n # 2
    IN  ForHelperRuns(P)

\* C17, amended: a helper ends the process only when uname() fails or the
\* version string cannot be parsed, and then it always does; in every other
\* case it returns an integer to its caller.
C17_ExitOnlyNoVersion ==
    LET P(live, ret, log) ==
            /\ live <=> VersionParsed
            /\ live => ret \in {-1, 0, 1} /\ ExitReason(log) = ""
            /\ ~live => ExitReason(log) = (IF uname_rv # 0 THEN "uname" ELSE "sscanf")
    IN  ForHelperRuns(P)

\* a helper has failed at create-ruleset and at add-rule and has returned
C17_Witness ==
    /\ alive
    /\ lastOp.name \in HelperNames
    /\ lastOp.ret = -1
    /\ \E i \in 1..Len(lastOp.log) :
          lastOp.log[i].ev = "create_ruleset" /\ lastOp.log[i].ret = -1
    /\ \E i \in 1..Len(lastOp.log) :
          lastOp.log[i].ev = "add_rule" /\ lastOp.log[i].ret = -1

\* the positions of a log at which create-ruleset succeeded
Created(log) ==
    {i \in 1..Len(log) : log[i].ev = "create_ruleset" /\ log[i].ret # -1}

\* C18: create-ruleset is attempted only while rset_fd is -1, by a helper,
\* the baseline or the walk of ll_restrict; once it has succeeded rset_fd
\* holds the descriptor it returned, no call attempts it again and rset_fd
\* keeps its value, also after a commit; the process never holds two
\* rulesets.
C18_OneRuleset ==
    [][/\ HasEvent(lastOp'.log, "create_ruleset")
          => /\ rset_fd = -1
             /\ lastOp'.name \in {"ll_read", "ll_write", "ll_basic_system",
                                  "ll_restrict"}
       /\ Cardinality(Created(lastOp'.log)) <= 1
       /\ \A i \in Created(lastOp'.log) :
             /\ \A j \in (i + 1)..Len(lastOp'.log) :
                   lastOp'.log[j].ev # "create_ruleset"
             /\ alive' => rset_fd' = lastOp'.log[i].fd
       /\ (rset_fd # -1 /\ alive') => rset_fd' = rset_fd
       /\ Cardinality({fd \in DOMAIN fds' : fds'[fd].kind = "ruleset"}) <= 1]_vars

\* the baseline has created the ruleset in its first step and every helper
\* it called has added its rule to that ruleset
C18_Witness ==
    /\ lastOp.name = "ll_basic_system"
    /\ Cardinality(Created(lastOp.log)) = 1
    /\ Len(EventsOf(lastOp.log, "create_ruleset")) = 1
    /\ Len(EventsOf(lastOp.log, "add_rule")) = 27
    /\ \A i \in 1..Len(lastOp.log) :
          lastOp.log[i].ev = "add_rule"
          => lastOp.log[i].fd = rset_fd /\ lastOp.log[i].ret = 0

\* C19: on a supported kernel a helper returns 0 exactly when its add-rule
\* call was accepted; then the open ruleset holds the grants it held joined
\* with those of the rule; when it returns non-zero (path missing,
\* create-ruleset failed, add-rule rejected) the grants are what they were.
C19_ZeroIffRuleAdded ==
    (alive /\ KernelSupported)
    => /\ lastOp.name \in HelperNames
          => (lastOp.ret = 0 <=> HasAddedRule(lastOp.log))
       /\ \A c \in TrialCalls, rej \in 0..1 :
             LET Run(r) ==
                     /\ r.ret = 0 <=> HasAddedRule(r.log)
                     /\ r.ret = 0
                        => /\ IsOpen(r.fds, r.rset_fd, "ruleset")
                           /\ Held(r) = RulesOf(fds, rset_fd)
                                           \cup RuleGrants(c[2], ClassMask(c[1]))
                     /\ r.ret # 0
                        => /\ Held(r) = RulesOf(fds, rset_fd)
                           /\ \A fd \in DOMAIN fds :
                                 fds[fd].kind = "ruleset"
                                 => fd \in DOMAIN r.fds /\ r.fds[fd] = fds[fd]
             IN  Run(CallHelper(Enter(Oracle(rej, TRUE)), c[1], c[2]))

\* the kernel has rejected a helper's rule on a ruleset that holds rules, and
\* the helper has returned non-zero
C19_Witness ==
    /\ alive
    /\ KernelSupported
    /\ lastOp.name \in HelperNames
    /\ lastOp.ret # 0
    /\ ~HasAddedRule(lastOp.log)
    /\ IsOpen(fds, rset_fd, "ruleset")
    /\ RulesOf(fds, rset_fd) # {}
    /\ \E i \in 1..Len(lastOp.log) :
          lastOp.log[i].ev = "add_rule" /\ lastOp.log[i].fd = rset_fd

\* the result of the restrict-self call of a log (0 when there is none)
RestrictResult(log) ==
    IF HasEvent(log, "restrict_self")
    THEN EventsOf(log, "restrict_self")[1].ret
    ELSE 0

\* C20: in ll_restrict on a supported kernel every queued directive whose
\* path exists is handed to its helper, whatever the helpers before it
\* returned; restrict-self is invoked when a ruleset was open before the call
\* or was created by it; and the value returned is that of restrict-self
\* (0 when restrict-self was not invoked).
C20_FailureDoesNotStopWalk ==
    [][(lastOp'.name = "ll_restrict" /\ KernelSupported /\ alive')
       => /\ Len(EventsOf(lastOp'.log, "call")) = Cardinality(Existing)
          /\ (IsOpen(fds, rset_fd, "ruleset") \/ Created(lastOp'.log) # {})
             => HasEvent(lastOp'.log, "restrict_self")
          /\ Len(EventsOf(lastOp'.log, "restrict_self")) <= 1
          /\ lastOp'.ret = RestrictResult(lastOp'.log)]_vars

\* the first directive's rule was rejected and reported, the next
\* directive's rule was added, and the commit succeeded with result 0
C20_Witness ==
    /\ RestrictWalked
    /\ HasError(lastOp.log)
    /\ LET adds == EventsOf(lastOp.log, "add_rule")
       IN  /\ Len(adds) >= 2
           /\ adds[1].ret # 0
           /\ adds[2].ret = 0
    /\ HasRestrict(lastOp.log, TRUE)
    /\ lastOp.ret = 0

====
